---- MODULE Spec2Model ----
(***************************************************************************)
(* A model of emei's EmeiEnv (src/emei/core.py): the counterfactual query  *)
(* engine built on freeze/unfreeze, the reward/terminal adapters of the    *)
(* MuJoCo tasks, the offline dataset cache, loader and episode segmenter.  *)
(*                                                                         *)
(* Python strings are sequences of tokens: a separator character ("-" or   *)
(* "/") is a token of its own, every other token is a run of characters    *)
(* holding no separator.  Floating point numbers are records Fin(n), NaN,  *)
(* PosInf, NegInf; rewards are counted in eighths, angles in units of 60   *)
(* degrees, so that every formula of the tasks is exact integer arithmetic.*)
(***************************************************************************)
EXTENDS Integers, Sequences, FiniteSets, TLC

VARIABLES
    op,            \* the operation performed last
    \* ---- the environment (EmeiEnv and its simulator back-end)
    sim,           \* the simulator's physical state (qpos, qvel)
    frozen_state,  \* self.frozen_state: None, or the snapshot held
    steps,         \* the episode step counter step() advances
    qcall,         \* the arguments of the last query
    qpre,          \* the environment as it was when the last query was issued
    qout,          \* what the last query did and returned
    \* ---- the dataset server, the cache directory and the dataset operations
    remote,        \* the archive the server publishes
    files,         \* the cache: the files that exist, by path
    dirs,          \* the cache: the directories that exist
    transfers,     \* network transfers started so far, by URL
    cached,        \* the URLs a fetch has returned for since their file was last removed
    dcall,         \* the last dataset operation and its arguments
    dpre,          \* the cache as it was when that operation was called
    dout,          \* what that operation did and returned
    \* ---- callers running download_dataset_from_url at the same time
    fpc,           \* each caller's place in download_dataset_from_url
    furl,          \* the URL each caller fetches
    fseen,         \* what each caller's look at the path before the transfer showed
    \* ---- the reward and terminal formulas
    rin,           \* the task and the batch the formulas are applied to
    rout           \* the formula applied last, on the batch and on each row alone

envVars == <<sim, frozen_state, steps, qcall, qpre, qout>>
raceVars == <<fpc, furl, fseen>>
dataVars == <<remote, files, dirs, transfers, cached, dcall, dpre, dout, raceVars>>
rewardVars == <<rin, rout>>
vars == <<op, envVars, dataVars, rewardVars>>

\* ------------------------------------------------------------------ bounds
MaxRows == 2       \* rows of a query batch
MaxSteps == 2      \* the step counter's cap
MaxLen == 3        \* timesteps of a published dataset
MaxTransfers == 2  \* network transfers in one behaviour
MaxBatch == 2      \* rows of a batch of observations

\* ------------------------------------------------------- values and results
States == 0 .. 1                 \* physical states; an observation is the state it shows
ValidActs == 0 .. 1
BadObs == -1                     \* an observation set_state_from_observation rejects
BadAct == -2                     \* an action step rejects
Observations == States \cup {BadObs}
Actions == ValidActs \cup {BadAct}

None == <<>>                     \* frozen_state = None
NoExc == "none"
NoRet == [next_obs |-> <<>>, reward |-> <<>>, done |-> <<>>, info |-> <<>>]

\* What a call did: the environment it leaves, the exception it raised (NoExc when
\* it returned), the value returned, the back-end calls it made in order, and the
\* environment as it was after each completed row.
Returned(E, ret, calls, rows) ==
    [env |-> E, exc |-> NoExc, ret |-> ret, calls |-> calls, rows |-> rows]
Raised(E, exc, calls, rows) ==
    [env |-> E, exc |-> exc, ret |-> NoRet, calls |-> calls, rows |-> rows]

Env == [sim |-> sim, frozen_state |-> frozen_state, steps |-> steps]

\* --------------------------------------------- the simulator back-end
\* freeze(): captures the physical state in the single snapshot slot; fatal when a
\* snapshot is already held.
freeze(E) ==
    IF E.frozen_state /= None
    THEN Raised(E, "FreezeError", <<"freeze">>, <<>>)
    ELSE Returned([E EXCEPT !.frozen_state = <<E.sim>>], NoRet, <<"freeze">>, <<>>)

\* unfreeze(): restores the physical state from the snapshot and releases it; fatal
\* when none is held.
unfreeze(E) ==
    IF E.frozen_state = None
    THEN Raised(E, "UnfreezeError", <<"unfreeze">>, <<>>)
    ELSE Returned([E EXCEPT !.sim = E.frozen_state[1], !.frozen_state = None],
                  NoRet, <<"unfreeze">>, <<>>)

\* _set_state_by_obs(obs): the physical state the observation shows.
set_state_by_obs(E, obs) ==
    IF obs \notin States
    THEN Raised(E, "ValueError", <<"set_state">>, <<>>)
    ELSE Returned([E EXCEPT !.sim = obs], NoRet, <<"set_state">>, <<>>)

\* One simulation step: the physics, and the transition read off the next state.
Dynamics(s, a) == (s + a) % Cardinality(States)
Transition(s) ==
    [next_obs |-> s, reward |-> 8 - s, done |-> (s = 0), info |-> [state |-> s]]

\* step(action): advances the physical state and the episode step counter, which
\* no snapshot covers.
step(E, action) ==
    IF action \notin ValidActs
    THEN Raised(E, "ValueError", <<"step">>, <<>>)
    ELSE LET s == Dynamics(E.sim, action)
             n == IF E.steps < MaxSteps THEN E.steps + 1 ELSE E.steps
         IN  Returned([E EXCEPT !.sim = s, !.steps = n], Transition(s), <<"step">>, <<>>)

\* ------------------------------------------------ EmeiEnv.single_query
\* The query that returns without unfreezing.
single_query_no_unfreeze(E, obs, action) ==
    LET f == freeze(E) IN
    IF f.exc /= NoExc THEN f ELSE
    LET s == set_state_by_obs(f.env, obs) IN
    IF s.exc /= NoExc THEN Raised(s.env, s.exc, f.calls \o s.calls, <<>>) ELSE
    LET t == step(s.env, action) IN
    IF t.exc /= NoExc THEN Raised(t.env, t.exc, f.calls \o s.calls \o t.calls, <<>>)
    ELSE Returned(t.env, t.ret, f.calls \o s.calls \o t.calls, <<>>)

\* The query that steps before it sets the state.
single_query_step_first(E, obs, action) ==
    LET f == freeze(E) IN
    IF f.exc /= NoExc THEN f ELSE
    LET t == step(f.env, action) IN
    IF t.exc /= NoExc THEN Raised(t.env, t.exc, f.calls \o t.calls, <<>>) ELSE
    LET s == set_state_by_obs(t.env, obs) IN
    IF s.exc /= NoExc THEN Raised(s.env, s.exc, f.calls \o t.calls \o s.calls, <<>>) ELSE
    LET u == unfreeze(s.env) IN
    IF u.exc /= NoExc
    THEN Raised(u.env, u.exc, f.calls \o t.calls \o s.calls \o u.calls, <<>>)
    ELSE Returned(u.env, t.ret, f.calls \o t.calls \o s.calls \o u.calls, <<>>)

single_query(E, obs, action) ==
    LET f == freeze(E) IN
    IF f.exc /= NoExc THEN f ELSE
    LET s == set_state_by_obs(f.env, obs) IN
    IF s.exc /= NoExc THEN Raised(s.env, s.exc, f.calls \o s.calls, <<>>) ELSE
    LET t == step(s.env, action) IN
    IF t.exc /= NoExc THEN Raised(t.env, t.exc, f.calls \o s.calls \o t.calls, <<>>) ELSE
    LET u == unfreeze(t.env) IN
    IF u.exc /= NoExc
    THEN Raised(u.env, u.exc, f.calls \o s.calls \o t.calls \o u.calls, <<>>)
    ELSE Returned(u.env, t.ret, f.calls \o s.calls \o t.calls \o u.calls, <<>>)

\* ------------------------------------------------------- EmeiEnv.query
\* The rows collected newest first.
append_row_front(ret, row) ==
    [next_obs |-> <<row.next_obs>> \o ret.next_obs,
     reward |-> <<row.reward>> \o ret.reward,
     done |-> <<row.done>> \o ret.done,
     info |-> <<row.info>> \o ret.info]

\* The four lists the batch loop appends to.
append_row(ret, row) ==
    [next_obs |-> Append(ret.next_obs, row.next_obs),
     reward |-> Append(ret.reward, row.reward),
     done |-> Append(ret.done, row.done),
     info |-> Append(ret.info, row.info)]

\* for i in range(obs.shape[0]): rows i .. N of the loop, acc what rows 1 .. i-1 did.
RECURSIVE query_rows(_, _, _, _, _)
query_rows(E, obs, action, i, acc) ==
    IF i > Len(obs) THEN Returned(E, acc.ret, acc.calls, acc.rows)
    ELSE IF i > Len(action) THEN Raised(E, "IndexError", acc.calls, acc.rows)
    ELSE LET r == single_query(E, obs[i], action[i]) IN
         IF r.exc /= NoExc THEN Raised(r.env, r.exc, acc.calls \o r.calls, acc.rows)
         ELSE query_rows(r.env, obs, action, i + 1,
                         [ret |-> append_row(acc.ret, r.ret),
                          calls |-> acc.calls \o r.calls,
                          rows |-> Append(acc.rows, r.env)])

\* A call of query: the rank of obs and of action, and the two arrays as sequences
\* of rows (a rank-1 array is the one observation or action it holds).
query(E, call) ==
    IF call.orank = 1
    THEN IF call.arank /= 1 THEN Raised(E, "AssertionError", <<>>, <<>>)
         ELSE LET r == single_query(E, call.obs[1], call.action[1]) IN
              IF r.exc /= NoExc THEN r
              ELSE Returned(r.env, r.ret, r.calls, <<r.env>>)
    ELSE query_rows(E, call.obs, call.action, 1,
                    [ret |-> NoRet, calls |-> <<>>, rows |-> <<>>])

\* ------------------------------------------------------------- inputs
RowsUpTo(S, n) == UNION {[1 .. k -> S] : k \in 0 .. n}

\* The rows a query is tried on: two that succeed from different observations, one
\* whose observation is rejected, one whose action is rejected.
QueryRows == {<<0, 1>>, <<1, 1>>, <<BadObs, 0>>, <<1, BadAct>>}

\* The action batch of a batch of rows, with d rows more (d = 1) or fewer (d = -1)
\* than the observation batch.
ActionBatch(rows, d) ==
    [i \in 1 .. Len(rows) + d |-> IF i <= Len(rows) THEN rows[i][2] ELSE 0]

QueryCalls ==
    {[orank |-> 1, obs |-> <<r[1]>>, arank |-> a, action |-> <<r[2]>>] :
        r \in QueryRows, a \in {1, 2}}
    \cup UNION {{[orank |-> 2, obs |-> [i \in 1 .. Len(rows) |-> rows[i][1]],
                   arank |-> 2, action |-> ActionBatch(rows, d)] :
                     d \in {e \in {-1, 0, 1} : Len(rows) + e >= 0}} :
                 rows \in RowsUpTo(QueryRows, MaxRows)}

NoCall == [orank |-> 0, obs |-> <<>>, arank |-> 0, action |-> <<>>]

\* ============================================================ strings
\* str.find(sub): the 0-based place of the first occurrence, -1 when there is none.
find(s, sub) ==
    IF \E i \in 1 .. Len(s) : s[i] = sub
    THEN (CHOOSE i \in 1 .. Len(s) : s[i] = sub /\ \A j \in 1 .. i - 1 : s[j] /= sub) - 1
    ELSE -1

\* s[:j] and s[j:] for a 0-based j; a negative j counts from the end.
slice_to(s, j) == SubSeq(s, 1, IF j >= 0 THEN j ELSE Len(s) + j)
slice_from(s, j) == SubSeq(s, (IF j >= 0 THEN j ELSE Len(s) + j) + 1, Len(s))

\* str.split(sep): the pieces between the occurrences of sep.
RECURSIVE split(_, _)
split(s, sep) ==
    LET j == find(s, sep) IN
    IF j = -1 THEN <<s>>
    ELSE <<slice_to(s, j)>> \o split(slice_from(s, j + 1), sep)

\* os.path.join of a directory and the components after it.
RECURSIVE path_join(_, _)
path_join(dir, parts) ==
    IF parts = <<>> THEN dir
    ELSE path_join(dir \o <<"/">> \o Head(parts), Tail(parts))

Range(f) == {f[i] : i \in DOMAIN f}

\* ============================================== offline_info: the registry
ROOT_PATH == <<"http:", "/", "/", "114.212.20.185", "/", "emei", "/", "offline_data">>
ENV_NAMES ==
    << <<"ContinuousCartPoleHolding">>, <<"ContinuousCartPoleSwingUp">>,
       <<"ContinuousChargedBallCentering">>,
       <<"BoundaryInvertedPendulumHolding">>, <<"ReboundInvertedPendulumHolding">>,
       <<"BoundaryInvertedPendulumSwingUp">>, <<"ReboundInvertedPendulumSwingUp">> >>
DATASETS ==
    << <<"random">>, <<"medium">>, <<"expert">>,
       <<"medium", "-", "replay">>, <<"expert", "-", "replay">> >>
params == << <<"freq_rate=1&time_step=0.02">> >>

\* "{}/{}-v0/freq_rate=1&time_step=0.02/{}-{}-v0.h5".format(ROOT_PATH, env_name,
\* dataset, env_name)
dataset_url(env_name, dataset) ==
    ROOT_PATH \o <<"/">> \o env_name \o <<"-", "v0", "/", "freq_rate=1&time_step=0.02", "/">>
        \o dataset \o <<"-">> \o env_name \o <<"-", "v0.h5">>

URL_INFOS ==
    [env_name \in Range(ENV_NAMES) |->
        [param \in Range(params) |->
            [dataset \in Range(DATASETS) |-> dataset_url(env_name, dataset)]]]

\* os.path.expanduser('~/.emei/offline_data')
DATASET_PATH == <<"$HOME", "/", ".emei", "/", "offline_data">>

\* ================================================= EmeiEnv.__init__
\* An environment class is its name, the last three characters apart.
EnvClasses ==
    { <<"ContinuousCartPoleHolding", "E", "n", "v">>,
      <<"HalfCheetahRunning", "E", "n", "v">> }

\* The task classes of this repository: none of their names is in the registry.
TaskClasses ==
    { <<"HalfCheetahRunning", "E", "n", "v">>,
      <<"ReboundInvertedDoublePendulumBalancing", "E", "n", "v">>,
      <<"BoundaryInvertedDoublePendulumBalancing", "E", "n", "v">>,
      <<"ReboundInvertedDoublePendulumSwingUp", "E", "n", "v">>,
      <<"BoundaryInvertedDoublePendulumSwingUp", "E", "n", "v">> }

class_env_name(cls) == SubSeq(cls, 1, Len(cls) - 3)

\* The names "{param}-{dataset}" in the order __init__ appends them; none for a
\* class the registry does not hold.
RECURSIVE names_of(_, _)
names_of(param, datasets) ==
    IF datasets = <<>> THEN <<>>
    ELSE <<param \o <<"-">> \o Head(datasets)>> \o names_of(param, Tail(datasets))

RECURSIVE names_of_params(_)
names_of_params(ps) ==
    IF ps = <<>> THEN <<>>
    ELSE names_of(Head(ps), DATASETS) \o names_of_params(Tail(ps))

\* The names built whether or not the registry holds the class.
offline_dataset_names_unconditional(cls) == names_of_params(params)

offline_dataset_names(cls) ==
    IF class_env_name(cls) \in DOMAIN URL_INFOS THEN names_of_params(params) ELSE <<>>

\* ===================================================== the cache and the archives
\* A cache: the files (path -> content), the directories, the transfers by URL.
Cache == [files |-> files, dirs |-> dirs, transfers |-> transfers]

\* An archive is its leaves by name, each an array or a scalar; a file a transfer
\* left unfinished is no archive.
Partial == [kind |-> "partial", leaves |-> <<>>]
Archive(leaves) == [kind |-> "h5", leaves |-> leaves]
Array(v) == [scalar |-> FALSE, v |-> v]

Mandatory == {"observations", "actions", "rewards", "terminals", "timeouts"}

\* A dataset of n timesteps whose observations run to n + skew: every value names
\* its field and its timestep.
Dataset(n, terminals, timeouts, skew) ==
    [k \in Mandatory |->
        CASE k = "observations" -> Array([i \in 1 .. n + skew |-> 100 + i])
          [] k = "actions" -> Array([i \in 1 .. n |-> 200 + i])
          [] k = "rewards" -> Array([i \in 1 .. n |-> 300 + i])
          [] k = "terminals" -> Array(terminals)
          [] OTHER -> Array(timeouts)]

Restrict(f, S) == [k \in S |-> f[k]]

\* What the operations return beside the cache.
NoData == <<>>
DataOut(C, exc, missing, path, data, episodes, events) ==
    [cache |-> C, exc |-> exc, missing |-> missing, path |-> path, data |-> data,
     episodes |-> episodes, events |-> events]

\* =================================================== filepath_from_url
\* env_name, param, dataset_name = dataset_url.split('/')[-3:]
last_three(parts) == SubSeq(parts, Len(parts) - 2, Len(parts))

\* os.makedirs(os.path.join(DATASET_PATH, env_name, param), exist_ok=True) and the
\* path os.path.join(DATASET_PATH, env_name, param, dataset_name) returned.
filepath_of(C, names) ==
    [cache |-> [C EXCEPT !.dirs = C.dirs \cup {DATASET_PATH,
                                               path_join(DATASET_PATH, SubSeq(names, 1, 1)),
                                               path_join(DATASET_PATH, SubSeq(names, 1, 2))}],
     path |-> path_join(DATASET_PATH, names)]

filepath_from_url(C, url) == filepath_of(C, last_three(split(url, "/")))

\* ========================================== urllib.request.urlretrieve
\* What a transfer can do: write the whole file, fail before the file is opened,
\* fail with part of the file written, or return having written nothing.
Outcomes == {"ok", "refused", "interrupted", "silent"}

urlretrieve(C, url, path, outcome) ==
    CASE outcome = "ok" ->
            [cache |-> [C EXCEPT !.transfers[url] = @ + 1,
                                 !.files = (path :> remote) @@ @],
             exc |-> NoExc]
      [] outcome = "interrupted" ->
            [cache |-> [C EXCEPT !.transfers[url] = @ + 1,
                                 !.files = (path :> Partial) @@ @],
             exc |-> "URLError"]
      [] outcome = "refused" ->
            [cache |-> [C EXCEPT !.transfers[url] = @ + 1], exc |-> "URLError"]
      [] OTHER -> [cache |-> [C EXCEPT !.transfers[url] = @ + 1], exc |-> NoExc]

\* ========================================= download_dataset_from_url
\* The transfer made whether or not the file exists.
download_always(fp, url, outcome) ==
    [got |-> urlretrieve(fp.cache, url, fp.path, outcome), path |-> fp.path,
     events |-> <<"resolve", "makedirs", "transfer">>]

\* if not os.path.exists(dataset_filepath): urlretrieve(dataset_url, dataset_filepath)
download_if_absent(fp, url, outcome) ==
    IF fp.path \notin DOMAIN fp.cache.files
    THEN [got |-> urlretrieve(fp.cache, url, fp.path, outcome), path |-> fp.path,
          events |-> <<"resolve", "makedirs", "transfer">>]
    ELSE [got |-> [cache |-> fp.cache, exc |-> NoExc], path |-> fp.path,
          events |-> <<"resolve", "makedirs">>]

\* The path returned without the second look at the file.
return_without_check(t) ==
    IF t.got.exc /= NoExc
    THEN DataOut(t.got.cache, t.got.exc, "", <<>>, NoData, <<>>, t.events)
    ELSE DataOut(t.got.cache, NoExc, "", t.path, NoData, <<>>, t.events \o <<"fetched">>)

\* if not os.path.exists(dataset_filepath): raise IOError; return dataset_filepath
return_if_present(t) ==
    IF t.got.exc /= NoExc
    THEN DataOut(t.got.cache, t.got.exc, "", <<>>, NoData, <<>>, t.events)
    ELSE IF t.path \notin DOMAIN t.got.cache.files
    THEN DataOut(t.got.cache, "IOError", "", <<>>, NoData, <<>>, t.events)
    ELSE DataOut(t.got.cache, NoExc, "", t.path, NoData, <<>>, t.events \o <<"fetched">>)

download_dataset_from_url(C, url, outcome) ==
    return_if_present(download_if_absent(filepath_from_url(C, url), url, outcome))

\* ================================================= EmeiEnv.get_dataset
\* The check without its last key.
sanity_keys_short == <<"observations", "observations", "actions", "rewards", "terminals">>

\* The keys the sanity check asks for, in its order.
sanity_keys ==
    <<"observations", "observations", "actions", "rewards", "terminals", "timeouts">>

\* The first key of the check that the loaded dictionary lacks, "" when none is.
RECURSIVE first_missing(_, _)
first_missing(keys, data_dict) ==
    IF keys = <<>> THEN ""
    ELSE IF Head(keys) \notin DOMAIN data_dict THEN Head(keys)
    ELSE first_missing(Tail(keys), data_dict)

\* assert key in data_dict, 'Dataset is missing key %s' % key; return data_dict
sanity_check(d, data_dict, missing) ==
    IF missing /= ""
    THEN DataOut(d.cache, "AssertionError", missing, <<>>, NoData, <<>>,
                 d.events \o <<"open", "load">>)
    ELSE DataOut(d.cache, NoExc, "", d.path, data_dict, <<>>,
                 d.events \o <<"open", "load">>)

\* with h5py.File(h5path, 'r'): every leaf of the archive into data_dict.
load_file(d, file) ==
    IF file.kind /= "h5"
    THEN DataOut(d.cache, "OSError", "", <<>>, NoData, <<>>, d.events \o <<"open">>)
    ELSE sanity_check(d, file.leaves, first_missing(sanity_keys, file.leaves))

\* What follows h5path = download_dataset_from_url(url), d being what the fetch did.
load_fetched(d) ==
    IF d.exc /= NoExc THEN d
    ELSE IF d.path \notin DOMAIN d.cache.files   \* h5py.File on a path that does not exist
    THEN DataOut(d.cache, "OSError", "", <<>>, NoData, <<>>, d.events \o <<"open">>)
    ELSE load_file(d, d.cache.files[d.path])

logged(d, event) == [d EXCEPT !.events = <<event>> \o @]

\* url = self.data_url[param][dataset_type]; h5path = download_dataset_from_url(url)
lookup_and_fetch(C, env_name, param, dataset_type, outcome) ==
    IF env_name \notin DOMAIN URL_INFOS
    THEN DataOut(C, "AttributeError", "", <<>>, NoData, <<>>, <<"lookup">>)
    ELSE IF param \notin DOMAIN URL_INFOS[env_name]
    THEN DataOut(C, "KeyError", "", <<>>, NoData, <<>>, <<"lookup">>)
    ELSE IF dataset_type \notin DOMAIN URL_INFOS[env_name][param]
    THEN DataOut(C, "KeyError", "", <<>>, NoData, <<>>, <<"lookup">>)
    ELSE logged(load_fetched(download_dataset_from_url(
                    C, URL_INFOS[env_name][param][dataset_type], outcome)), "lookup")

\* The name split at its last "-".
find_last(s, sub) ==
    IF \E i \in 1 .. Len(s) : s[i] = sub
    THEN (CHOOSE i \in 1 .. Len(s) : s[i] = sub /\ \A j \in i + 1 .. Len(s) : s[j] /= sub) - 1
    ELSE -1
split_name_at_last(C, cls, dataset_name, joint_pos, outcome) ==
    lookup_and_fetch(C, class_env_name(cls),
                     slice_to(dataset_name, find_last(dataset_name, "-")),
                     slice_from(dataset_name, find_last(dataset_name, "-") + 1), outcome)

\* param, dataset_type = dataset_name[:joint_pos], dataset_name[joint_pos + 1:]
split_name(C, cls, dataset_name, joint_pos, outcome) ==
    lookup_and_fetch(C, class_env_name(cls), slice_to(dataset_name, joint_pos),
                     slice_from(dataset_name, joint_pos + 1), outcome)

\* No check of the name.
name_is_unchecked(cls, dataset_name) == TRUE

\* assert dataset_name in self.offline_dataset_names
name_is_offered(cls, dataset_name) == dataset_name \in Range(offline_dataset_names(cls))

get_dataset(C, cls, dataset_name, outcome) ==
    IF ~name_is_offered(cls, dataset_name)
    THEN DataOut(C, "AssertionError", "", <<>>, NoData, <<>>, <<>>)
    ELSE split_name(C, cls, dataset_name, find(dataset_name, "-"), outcome)

\* ======================================== EmeiEnv.get_sequence_dataset
Truthy(x) == x /= 0

\* The append that also opens the episode after the current one.
append_timestep_and_open(data, sequence_num, dataset, i) ==
    LET old == IF sequence_num \in DOMAIN data THEN data[sequence_num]
               ELSE [k \in DOMAIN dataset |-> <<>>]
        new == [k \in DOMAIN dataset |-> Append(old[k], dataset[k].v[i])]
    IN  (sequence_num :> new) @@ data
            @@ ((sequence_num + 1) :> [k \in DOMAIN dataset |-> <<>>])

\* data[sequence_num][k].append(dataset[k][i]) for every key k of the dataset.
append_timestep(data, sequence_num, dataset, i) ==
    LET old == IF sequence_num \in DOMAIN data THEN data[sequence_num]
               ELSE [k \in DOMAIN dataset |-> <<>>]
        new == [k \in DOMAIN dataset |-> Append(old[k], dataset[k].v[i])]
    IN  (sequence_num :> new) @@ data

\* The episode closed by terminals alone.
next_sequence_num_terminals_only(sequence_num, dataset, i) ==
    IF Truthy(dataset["terminals"].v[i]) THEN sequence_num + 1 ELSE sequence_num

\* sequence_num after timestep i.
next_sequence_num(sequence_num, dataset, i) ==
    IF Truthy(dataset["terminals"].v[i]) \/ Truthy(dataset["timeouts"].v[i])
    THEN sequence_num + 1
    ELSE sequence_num

\* Timestep i (1-based here) can be read from every array the loop indexes.
readable(dataset, i) ==
    \A k \in DOMAIN dataset : ~dataset[k].scalar /\ i <= Len(dataset[k].v)

\* for i in range(N): timesteps i .. N, data and sequence_num as timesteps before
\* i left them; "IndexError" when an array is too short for a timestep.
RECURSIVE segment_from(_, _, _, _, _)
segment_from(dataset, N, i, sequence_num, data) ==
    IF i > N THEN [exc |-> NoExc, data |-> data]
    ELSE IF ~readable(dataset, i) THEN [exc |-> "IndexError", data |-> <<>>]
    ELSE segment_from(dataset, N, i + 1, next_sequence_num(sequence_num, dataset, i),
                      append_timestep(data, sequence_num, dataset, i))

\* The episodes of a loaded dataset g, N = dataset['rewards'].shape[0].
segmented(g, r) ==
    IF r.exc /= NoExc
    THEN DataOut(g.cache, r.exc, "", <<>>, NoData, <<>>, g.events)
    ELSE DataOut(g.cache, NoExc, "", g.path, g.data, r.data, g.events)

\* The loop one timestep short.
segment_short(g) ==
    IF g.exc /= NoExc THEN g
    ELSE IF g.data["rewards"].scalar
    THEN DataOut(g.cache, "IndexError", "", <<>>, NoData, <<>>, g.events)
    ELSE segmented(g, segment_from(g.data, Len(g.data["rewards"].v) - 1, 1, 0, <<>>))

segment(g) ==
    IF g.exc /= NoExc THEN g
    ELSE IF g.data["rewards"].scalar
    THEN DataOut(g.cache, "IndexError", "", <<>>, NoData, <<>>, g.events)
    ELSE segmented(g, segment_from(g.data, Len(g.data["rewards"].v), 1, 0, <<>>))

get_sequence_dataset(C, cls, dataset_name, outcome) ==
    segment(get_dataset(C, cls, dataset_name, outcome))

\* ============================================================= floats
\* An IEEE number: finite (an integer count of the unit in use), NaN, or an infinity.
Fin(n) == [k |-> "fin", v |-> n]
NaN == [k |-> "nan", v |-> 0]
PosInf == [k |-> "inf", v |-> 1]
NegInf == [k |-> "inf", v |-> -1]

isfinite(a) == a.k = "fin"

\* a < b: false when either is NaN.
lt(a, b) ==
    /\ a.k /= "nan" /\ b.k /= "nan"
    /\ \/ a.k = "fin" /\ b.k = "fin" /\ a.v < b.v
       \/ b = PosInf /\ a /= PosInf
       \/ a = NegInf /\ b /= NegInf

neg(a) == IF a.k = "nan" THEN NaN ELSE [a EXCEPT !.v = -a.v]
add(a, b) ==
    CASE a.k = "nan" \/ b.k = "nan" -> NaN
      [] a.k = "fin" /\ b.k = "fin" -> Fin(a.v + b.v)
      [] a.k = "inf" /\ b.k = "inf" -> IF a.v = b.v THEN a ELSE NaN
      [] a.k = "inf" -> a
      [] OTHER -> b
sub(a, b) == add(a, neg(b))
\* c * a for an integer c > 0.
scale(c, a) == IF a.k = "fin" THEN Fin(c * a.v) ELSE a
square(a) == IF a.k = "fin" THEN Fin(a.v * a.v) ELSE IF a.k = "inf" THEN PosInf ELSE NaN

\* Twice np.cos of an angle counted in units of 60 degrees; NaN off the finite.
cos2(theta) ==
    IF theta.k /= "fin" THEN NaN
    ELSE Fin(<<2, 1, -1, -2, -1, 1>>[(theta.v % 6) + 1])

\* ============================================= the tasks' batch formulas
\* Rewards are counted in eighths, heights in halves: the forward reward's factor
\* _forward_reward_weight / time_step = 1.0 / 0.02 is 400 eighths, the control cost's
\* _ctrl_cost_weight = 0.5 is 4 eighths, and y > 1.5 is 2y > 3.

Some(x) == <<x>>

Tasks == {"HalfCheetahRunning", "ReboundInvertedDoublePendulumBalancing",
          "BoundaryInvertedDoublePendulumBalancing",
          "ReboundInvertedDoublePendulumSwingUp",
          "BoundaryInvertedDoublePendulumSwingUp"}

\* x, theta1, theta2, v, omega1, omega2 = next_obs.T, row by row; twice
\* y = np.cos(theta1) + np.cos(theta1 + theta2).
height2(row) == add(cos2(row[2]), cos2(add(row[2], row[3])))

all_finite(row) == \A j \in 1 .. Len(row) : isfinite(row[j])

RECURSIVE sum_squares(_)
sum_squares(v) == IF v = <<>> THEN Fin(0) ELSE add(square(Head(v)), sum_squares(Tail(v)))

\* np.sum(np.square(action)): over every entry of the array.
RECURSIVE sum_squares_all(_)
sum_squares_all(rows) ==
    IF rows = <<>> THEN Fin(0)
    ELSE add(sum_squares(Head(rows)), sum_squares_all(Tail(rows)))

Value(v) == [exc |-> NoExc, v |-> v]
Error(exc) == [exc |-> exc, v |-> <<>>]

\* HalfCheetahRunningEnv.get_batch_reward_by_next_obs
half_cheetah_reward(next_obs, pre_obs, action) ==
    IF pre_obs = None \/ action = None THEN Error("TypeError")
    ELSE Value([i \in 1 .. Len(next_obs) |->
                  <<sub(scale(400, sub(next_obs[i][1], pre_obs[1][i][1])),
                        scale(4, sum_squares_all(action[1])))>>])

\* np.ones([next_obs.shape[0], 1])
ones_reward(next_obs) == Value([i \in 1 .. Len(next_obs) |-> <<Fin(8)>>])

\* rewards = (2 - y) / 4
swing_up_reward(next_obs) ==
    Value([i \in 1 .. Len(next_obs) |-> <<sub(Fin(4), height2(next_obs[i]))>>])

get_batch_reward_by_next_obs(env, next_obs, pre_obs, action) ==
    CASE env.task = "HalfCheetahRunning" -> half_cheetah_reward(next_obs, pre_obs, action)
      [] env.task \in {"ReboundInvertedDoublePendulumBalancing",
                       "BoundaryInvertedDoublePendulumBalancing"} -> ones_reward(next_obs)
      [] OTHER -> swing_up_reward(next_obs)

\* notdone = np.isfinite(next_obs).all(axis=1) and the task's geometry, row by row.
in_range(env, row) == lt(env.jnt_range[1], row[1]) /\ lt(row[1], env.jnt_range[2])
upright(row) == lt(Fin(3), height2(row))

finite_notdone(env, row) == all_finite(row)
\* The geometry without the finiteness check.
rebound_balancing_notdone_geometry_only(env, row) == upright(row)

rebound_balancing_notdone(env, row) == all_finite(row) /\ upright(row)
boundary_balancing_notdone(env, row) == all_finite(row) /\ upright(row) /\ in_range(env, row)
boundary_swing_up_notdone(env, row) == all_finite(row) /\ in_range(env, row)

notdone(env, row) ==
    CASE env.task \in {"HalfCheetahRunning", "ReboundInvertedDoublePendulumSwingUp"} ->
            finite_notdone(env, row)
      [] env.task = "ReboundInvertedDoublePendulumBalancing" ->
            rebound_balancing_notdone(env, row)
      [] env.task = "BoundaryInvertedDoublePendulumBalancing" ->
            boundary_balancing_notdone(env, row)
      [] OTHER -> boundary_swing_up_notdone(env, row)

\* np.logical_not(notdone).reshape([next_obs.shape[0], 1])
get_batch_terminal_by_next_obs(env, next_obs, pre_obs, action) ==
    Value([i \in 1 .. Len(next_obs) |-> <<~notdone(env, next_obs[i])>>])

\* ============================ EmeiEnv.get_reward_by_next_obs, get_terminal_by_next_obs
\* An array is its rank and its rows (a rank-1 array is its one row); reshape(1, n)
\* of a rank-1 array keeps the row and makes the rank 2.
Rank1(row) == [rank |-> 1, rows |-> <<row>>]
Rank2(rows) == [rank |-> 2, rows |-> rows]
reshape_1(opt) == IF opt = None THEN None ELSE Some(opt[1].rows)
rows_of(opt) == IF opt = None THEN None ELSE Some(opt[1].rows)

\* float(batch[0, 0]) or bool(batch[0, 0])
first_entry(b) == IF b.exc /= NoExc THEN b ELSE Value(b.v[1][1])

get_reward_by_next_obs(env, next_obs, pre_obs, action) ==
    IF next_obs.rank = 1
    THEN first_entry(get_batch_reward_by_next_obs(
             env, next_obs.rows, reshape_1(pre_obs), reshape_1(action)))
    ELSE get_batch_reward_by_next_obs(env, next_obs.rows, rows_of(pre_obs), rows_of(action))

get_terminal_by_next_obs(env, next_obs, pre_obs, action) ==
    IF next_obs.rank = 1
    THEN first_entry(get_batch_terminal_by_next_obs(
             env, next_obs.rows, reshape_1(pre_obs), reshape_1(action)))
    ELSE get_batch_terminal_by_next_obs(env, next_obs.rows, rows_of(pre_obs), rows_of(action))

\* ------------------------------------------------------------ actions
NoEnv == [sim |-> 0, frozen_state |-> None, steps |-> 0]
NoOut == Returned(NoEnv, NoRet, <<>>, <<>>)
\* The record of the last query is that of the last operation only.
ForgetQuery == qcall' = NoCall /\ qpre' = NoEnv /\ qout' = NoOut

InitEnv ==
    /\ sim \in States
    /\ frozen_state = None
    /\ steps = 0
    /\ qcall = NoCall
    /\ qpre = NoEnv
    /\ qout = NoOut

\* The caller steps the live environment.
Step ==
    \E a \in ValidActs :
        /\ steps < MaxSteps
        /\ LET r == step(Env, a) IN
            /\ sim' = r.env.sim
            /\ steps' = r.env.steps
        /\ op' = "step"
        /\ ForgetQuery
        /\ UNCHANGED <<frozen_state, dataVars, rewardVars>>

\* The caller freezes the environment itself (a rollout test).
Freeze ==
    /\ LET r == freeze(Env) IN
        /\ r.exc = NoExc
        /\ frozen_state' = r.env.frozen_state
    /\ op' = "freeze"
    /\ ForgetQuery
    /\ UNCHANGED <<sim, steps, dataVars, rewardVars>>

Unfreeze ==
    /\ LET r == unfreeze(Env) IN
        /\ r.exc = NoExc
        /\ sim' = r.env.sim
        /\ frozen_state' = r.env.frozen_state
    /\ op' = "unfreeze"
    /\ ForgetQuery
    /\ UNCHANGED <<steps, dataVars, rewardVars>>

Query ==
    \E call \in QueryCalls :
        /\ steps + (IF call.orank = 1 THEN 1 ELSE Len(call.obs)) <= MaxSteps
        /\ LET r == query(Env, call) IN
            /\ sim' = r.env.sim
            /\ frozen_state' = r.env.frozen_state
            /\ steps' = r.env.steps
            /\ qout' = r
        /\ qcall' = call
        /\ qpre' = Env
        /\ op' = "query"
        /\ UNCHANGED <<dataVars, rewardVars>>


\* ------------------------------------------------- the dataset operations
\* The dataset names the operations are tried on: two the registry offers (one of
\* them a kind that holds a "-") and two it does not.
TriedKinds == {<<"medium">>, <<"medium", "-", "replay">>}
TriedNames ==
    {params[1] \o <<"-">> \o d : d \in TriedKinds}
    \cup {<<"medium">>, params[1] \o <<"-", "bogus">>}
\* The names get_sequence_dataset is tried on: one offered, one not.
SegmentNames == {params[1] \o <<"-", "medium">>, <<"medium">>}
FetchURLs ==
    {URL_INFOS[class_env_name(cls)][params[1]][d] :
        cls \in {c \in EnvClasses : class_env_name(c) \in DOMAIN URL_INFOS},
        d \in TriedKinds}

path_of(url) == filepath_from_url(Cache, url).path
RECURSIVE sum_over(_, _)
sum_over(t, S) ==
    IF S = {} THEN 0
    ELSE LET u == CHOOSE u \in S : TRUE IN t[u] + sum_over(t, S \ {u})
Total(t) == sum_over(t, DOMAIN t)

\* The archives a server publishes in SpecData: one timestep, with every mandatory
\* field, with one of them missing, or with a field more.
KeyedArchives ==
    LET full == Dataset(1, <<1>>, <<0>>, 0) IN
    {Archive(full), Archive(full @@ ("infos/qpos" :> Array(<<7>>)))}
    \cup {Archive(Restrict(full, Mandatory \ {k})) : k \in Mandatory}
    \cup {Archive(Restrict(full, Mandatory \ {"actions", "timeouts"}))}

\* The archives a server publishes in SpecSeg: every dataset of up to MaxLen
\* timesteps, its observations of the same length, one short or one long, and
\* one with a scalar leaf beside the arrays, and the dataset of five timesteps
\* with terminals at the third and the fifth.
Flags(n) == [1 .. n -> {0, 1}]
\* terminals = [0,0,1,0,1], timeouts = [0,0,0,0,0]
ScenarioDataset == Dataset(5, <<0, 0, 1, 0, 1>>, <<0, 0, 0, 0, 0>>, 0)
SegmentArchives ==
    UNION {{Archive(Dataset(n, te, to, skew)) :
                te \in Flags(n), to \in Flags(n), skew \in {k \in {-1, 0, 1} : n + k >= 0}} :
           n \in 0 .. MaxLen}
    \cup {Archive(Dataset(1, <<0>>, <<1>>, 0)
                  @@ ("metadata/seed" :> [scalar |-> TRUE, v |-> <<7>>])),
          Archive(ScenarioDataset)}

\* Two callers of download_dataset_from_url.
Callers == {"a", "b"}

NoDCall == [name |-> "none", cls |-> <<>>, dataset_name |-> <<>>, url |-> <<>>]
NoCache == [files |-> <<>>, dirs |-> {}, transfers |-> [u \in FetchURLs |-> 0]]
\* What an operation returned; the cache it leaves is files, dirs and transfers.
Result(r) == [exc |-> r.exc, missing |-> r.missing, path |-> r.path, data |-> r.data,
              episodes |-> r.episodes, events |-> r.events]
NoDOut == Result(DataOut(NoCache, NoExc, "", <<>>, NoData, <<>>, <<>>))

InitData(archives) ==
    /\ remote \in archives
    /\ files = <<>>
    /\ dirs = {}
    /\ transfers = [u \in FetchURLs |-> 0]
    /\ cached = {}
    /\ dcall = NoDCall
    /\ dpre = NoCache
    /\ dout = NoDOut
    /\ fpc = [c \in Callers |-> "idle"]
    /\ furl = [c \in Callers |-> <<>>]
    /\ fseen = [c \in Callers |-> TRUE]

\* What every dataset operation does to the variables, r being what it did.
Done(call, r) ==
    /\ Total(r.cache.transfers) <= MaxTransfers
    /\ files' = r.cache.files
    /\ dirs' = r.cache.dirs
    /\ transfers' = r.cache.transfers
    /\ cached' = IF "fetched" \in Range(r.events) THEN cached \cup {call.url} ELSE cached
    /\ dcall' = call
    /\ dpre' = Cache
    /\ dout' = Result(r)
    /\ UNCHANGED <<remote, raceVars, envVars, rewardVars>>

\* The URL get_dataset fetches for a name the class offers.
url_of(cls, dataset_name) ==
    IF class_env_name(cls) \in DOMAIN URL_INFOS
       /\ dataset_name \in Range(offline_dataset_names(cls))
    THEN LET j == find(dataset_name, "-") IN
         URL_INFOS[class_env_name(cls)][slice_to(dataset_name, j)][slice_from(dataset_name, j + 1)]
    ELSE <<>>

\* What the transfer of a call can do; a call with no URL to fetch makes none.
TransferOutcomes(url) == IF url = <<>> THEN {"ok"} ELSE Outcomes

Fetch ==
    \E url \in FetchURLs, outcome \in Outcomes :
        /\ Done([name |-> "fetch", cls |-> <<>>, dataset_name |-> <<>>, url |-> url],
                download_dataset_from_url(Cache, url, outcome))
        /\ op' = "fetch"

GetDataset ==
    \E cls \in EnvClasses \cup TaskClasses, dataset_name \in TriedNames :
      \E outcome \in TransferOutcomes(url_of(cls, dataset_name)) :
        /\ Done([name |-> "get_dataset", cls |-> cls, dataset_name |-> dataset_name,
                 url |-> url_of(cls, dataset_name)],
                get_dataset(Cache, cls, dataset_name, outcome))
        /\ op' = "get_dataset"

GetSequenceDataset ==
    \E cls \in EnvClasses, dataset_name \in SegmentNames :
      \E outcome \in TransferOutcomes(url_of(cls, dataset_name)) :
        /\ Done([name |-> "get_sequence_dataset", cls |-> cls,
                 dataset_name |-> dataset_name, url |-> url_of(cls, dataset_name)],
                get_sequence_dataset(Cache, cls, dataset_name, outcome))
        /\ op' = "get_sequence_dataset"

\* The user removes a cached file.
RemoveFile ==
    \E path \in DOMAIN files :
        /\ files' = [q \in DOMAIN files \ {path} |-> files[q]]
        /\ cached' = {u \in cached : path_of(u) /= path}
        /\ dcall' = NoDCall
        /\ dpre' = NoCache
        /\ dout' = NoDOut
        /\ op' = "remove"
        /\ UNCHANGED <<remote, dirs, transfers, raceVars, envVars, rewardVars>>

\* -------------------------- download_dataset_from_url, statement by statement
\* The transfer made only when the path is still absent.
retrieve_if_still_absent(C, url, path, outcome) ==
    IF path \in DOMAIN C.files THEN [cache |-> C, exc |-> NoExc]
    ELSE urlretrieve(C, url, path, outcome)

\* urllib.request.urlretrieve(dataset_url, dataset_filepath), reached when the look
\* at the path showed no file: the path is not looked at again before the transfer.
retrieve_after_check(C, url, path, outcome) == urlretrieve(C, url, path, outcome)

\* os.path.exists(dataset_filepath)
exists(C, path) == path \in DOMAIN C.files

RaceUnchanged == UNCHANGED <<remote, dcall, dpre, dout, envVars, rewardVars>>

\* dataset_filepath = filepath_from_url(dataset_url)
CallFetch(c) ==
    \E url \in FetchURLs :
        /\ fpc[c] \in {"idle", "returned", "raised"}
        /\ Total(transfers) < MaxTransfers
        /\ dirs' = filepath_from_url(Cache, url).cache.dirs
        /\ fpc' = [fpc EXCEPT ![c] = "check"]
        /\ furl' = [furl EXCEPT ![c] = url]
        /\ op' = "call_fetch"
        /\ UNCHANGED <<files, transfers, cached, fseen>>
        /\ RaceUnchanged

\* if not os.path.exists(dataset_filepath):
CheckExists(c) ==
    /\ fpc[c] = "check"
    /\ fseen' = [fseen EXCEPT ![c] = exists(Cache, path_of(furl[c]))]
    /\ fpc' = [fpc EXCEPT ![c] = IF exists(Cache, path_of(furl[c])) THEN "recheck"
                                 ELSE "retrieve"]
    /\ op' = "check_exists"
    /\ UNCHANGED <<files, dirs, transfers, cached, furl>>
    /\ RaceUnchanged

\* urllib.request.urlretrieve(dataset_url, dataset_filepath)
Retrieve(c) ==
    \E outcome \in Outcomes :
        /\ fpc[c] = "retrieve"
        /\ LET r == retrieve_after_check(Cache, furl[c], path_of(furl[c]), outcome) IN
            /\ Total(r.cache.transfers) <= MaxTransfers
            /\ files' = r.cache.files
            /\ transfers' = r.cache.transfers
            /\ fpc' = [fpc EXCEPT ![c] = IF r.exc = NoExc THEN "recheck" ELSE "raised"]
        /\ op' = "retrieve"
        /\ UNCHANGED <<dirs, cached, furl, fseen>>
        /\ RaceUnchanged

\* if not os.path.exists(dataset_filepath): raise IOError; return dataset_filepath
ReturnPath(c) ==
    /\ fpc[c] = "recheck"
    /\ fpc' = [fpc EXCEPT ![c] = IF exists(Cache, path_of(furl[c])) THEN "returned"
                                 ELSE "raised"]
    /\ cached' = IF exists(Cache, path_of(furl[c])) THEN cached \cup {furl[c]} ELSE cached
    /\ op' = "return_path"
    /\ UNCHANGED <<files, dirs, transfers, furl, fseen>>
    /\ RaceUnchanged

\* ------------------------------------------- the reward and terminal formulas
\* The observations the formulas are tried on.  A pendulum row is x, theta1, theta2,
\* v, omega1, omega2: upright at the centre, leaning, off centre, out of range, and
\* four with a component that is not finite (one of them upright at the centre).
PendulumRows ==
    { <<Fin(0), Fin(0), Fin(0), Fin(0), Fin(0), Fin(0)>>,
      <<Fin(0), Fin(1), Fin(0), Fin(0), Fin(0), Fin(0)>>,
      <<Fin(2), Fin(0), Fin(0), Fin(0), Fin(0), Fin(0)>>,
      <<Fin(4), Fin(1), Fin(5), Fin(0), Fin(0), Fin(0)>>,
      <<NaN, Fin(0), Fin(0), Fin(0), Fin(0), Fin(0)>>,
      <<Fin(0), Fin(0), Fin(0), PosInf, Fin(0), Fin(0)>>,
      <<Fin(0), Fin(0), NegInf, Fin(0), Fin(0), Fin(0)>>,
      <<Fin(2), Fin(0), Fin(0), Fin(0), Fin(0), NaN>> }
\* A half-cheetah row is the x position and one more component.
CheetahRows ==
    { <<Fin(0), Fin(0)>>, <<Fin(1), Fin(0)>>, <<Fin(2), Fin(0)>>,
      <<NaN, Fin(0)>>, <<Fin(1), PosInf>> }
CheetahPreRows == { <<Fin(0), Fin(0)>>, <<Fin(1), Fin(0)>> }
CheetahActionRows == { <<Fin(0), Fin(0)>>, <<Fin(1), Fin(2)>> }

\* The slider's range: _update_model sets it for the swing-up tasks; the balancing
\* tasks take it from the model file.
JointRanges(task) ==
    IF task = "BoundaryInvertedDoublePendulumBalancing"
    THEN {<<Fin(-1), Fin(1)>>, <<Fin(-3), Fin(3)>>}
    ELSE {<<Fin(-3), Fin(3)>>}

Batches(S) == UNION {[1 .. n -> S] : n \in 0 .. MaxBatch}

RewardInputs ==
    UNION {{[env |-> [task |-> task, jnt_range |-> range], next_obs |-> rows,
             pre_obs |-> None, action |-> None] :
               range \in JointRanges(task), rows \in Batches(PendulumRows)} :
           task \in Tasks \ {"HalfCheetahRunning"}}
    \cup {[env |-> [task |-> "HalfCheetahRunning", jnt_range |-> <<Fin(-3), Fin(3)>>],
           next_obs |-> rows, pre_obs |-> None, action |-> None] :
             rows \in Batches(CheetahRows)}
    \cup UNION {{[env |-> [task |-> "HalfCheetahRunning", jnt_range |-> <<Fin(-3), Fin(3)>>],
                  next_obs |-> rows,
                  pre_obs |-> Some(Rank2([i \in 1 .. Len(rows) |-> pre])),
                  action |-> Some(Rank2(acts))] :
                    pre \in CheetahPreRows, acts \in [1 .. Len(rows) -> CheetahActionRows]} :
                rows \in Batches(CheetahRows)}

NoRIn == [env |-> [task |-> "none", jnt_range |-> <<Fin(0), Fin(0)>>], next_obs |-> <<>>,
          pre_obs |-> None, action |-> None]
NoROut == [name |-> "none", batch |-> Value(<<>>), single |-> <<>>]

\* Row i of an optional batch, as the rank-1 array a caller passes.
row_of(opt, i) == IF opt = None THEN None ELSE Some(Rank1(opt[1].rows[i]))

InitReward(inputs) == rin \in inputs /\ rout = NoROut

\* The caller asks for the reward of the whole batch, and of each row alone.
EvalReward ==
    /\ rout' = [name |-> "reward",
                batch |-> get_reward_by_next_obs(rin.env, Rank2(rin.next_obs),
                                                 rin.pre_obs, rin.action),
                single |-> [i \in 1 .. Len(rin.next_obs) |->
                              get_reward_by_next_obs(rin.env, Rank1(rin.next_obs[i]),
                                                     row_of(rin.pre_obs, i),
                                                     row_of(rin.action, i))]]
    /\ op' = "reward"
    /\ UNCHANGED <<rin, envVars, dataVars>>

EvalTerminal ==
    /\ rout' = [name |-> "terminal",
                batch |-> get_terminal_by_next_obs(rin.env, Rank2(rin.next_obs),
                                                   rin.pre_obs, rin.action),
                single |-> [i \in 1 .. Len(rin.next_obs) |->
                              get_terminal_by_next_obs(rin.env, Rank1(rin.next_obs[i]),
                                                       row_of(rin.pre_obs, i),
                                                       row_of(rin.action, i))]]
    /\ op' = "terminal"
    /\ UNCHANGED <<rin, envVars, dataVars>>

\* ------------------------------------------------------ specifications
NoArchive == {Archive(Dataset(0, <<>>, <<>>, 0))}

\* The environment under queries, with the cache untouched.
Init == op = "init" /\ InitEnv /\ InitData(NoArchive) /\ InitReward({NoRIn})
Next == Step \/ Freeze \/ Unfreeze \/ Query
Spec == Init /\ [][Next]_vars

\* The cache and the loader, over archives that differ in their fields.
InitKeyed == op = "init" /\ InitEnv /\ sim = 0 /\ InitData(KeyedArchives) /\ InitReward({NoRIn})
NextData == Fetch \/ GetDataset \/ RemoveFile
SpecData == InitKeyed /\ [][NextData]_vars

\* The segmenter, over archives that differ in their timesteps.
InitSeg == op = "init" /\ InitEnv /\ sim = 0 /\ InitData(SegmentArchives) /\ InitReward({NoRIn})
NextSeg == GetSequenceDataset \/ RemoveFile
SpecSeg == InitSeg /\ [][NextSeg]_vars

\* The reward and terminal formulas, over the tasks and batches of observations.
InitFormulas == op = "init" /\ InitEnv /\ sim = 0 /\ InitData(NoArchive) /\ InitReward(RewardInputs)
NextFormulas == EvalReward \/ EvalTerminal
SpecReward == InitFormulas /\ [][NextFormulas]_vars

\* Two callers in download_dataset_from_url at once, their statements interleaved.
InitRace ==
    op = "init" /\ InitEnv /\ sim = 0 /\ InitReward({NoRIn})
        /\ InitData({Archive(Dataset(1, <<1>>, <<0>>, 0))})
NextRace ==
    \E c \in Callers : CallFetch(c) \/ CheckExists(c) \/ Retrieve(c) \/ ReturnPath(c)
SpecRace == InitRace /\ [][NextRace]_vars

\* ==================================================================== claims

\* C1: a query issued on an idle environment that returns leaves the simulator's
\* physical state as it was before the call and holds no snapshot, and so it is
\* after every row of a batch.
C1_QueryPreservesState ==
    (op = "query" /\ qpre.frozen_state = None /\ qout.exc = NoExc) =>
        /\ sim = qpre.sim
        /\ frozen_state = None
        /\ Len(qout.rows) = Len(qcall.obs)
        /\ \A k \in 1 .. Len(qout.rows) :
              qout.rows[k].sim = qpre.sim /\ qout.rows[k].frozen_state = None

\* A batch of two rows returned, and one of its steps moved the physical state.
C1_Witness ==
    /\ op = "query" /\ qpre.frozen_state = None /\ qout.exc = NoExc
    /\ qcall.orank = 2 /\ Len(qcall.obs) = 2
    /\ \E k \in 1 .. 2 : qout.ret.next_obs[k] /= qpre.sim

\* C2: a batch query of N observation rows and N action rows returns N entries in
\* each of next_obs, reward, done and info, entry k being the single query's result
\* on (obs[k], action[k]); it raises only when the single query of some row raises.
C2_BatchMatchesSingle ==
    (op = "query" /\ qcall.orank = 2 /\ Len(qcall.action) = Len(qcall.obs)) =>
        LET N == Len(qcall.obs)
            one(k) == single_query(qpre, qcall.obs[k], qcall.action[k])
        IN  IF qout.exc = NoExc
            THEN /\ Len(qout.ret.next_obs) = N
                 /\ Len(qout.ret.reward) = N
                 /\ Len(qout.ret.done) = N
                 /\ Len(qout.ret.info) = N
                 /\ \A k \in 1 .. N :
                       /\ one(k).exc = NoExc
                       /\ qout.ret.next_obs[k] = one(k).ret.next_obs
                       /\ qout.ret.reward[k] = one(k).ret.reward
                       /\ qout.ret.done[k] = one(k).ret.done
                       /\ qout.ret.info[k] = one(k).ret.info
            ELSE \E k \in 1 .. N : one(k).exc = qout.exc

\* A batch of two rows returned two different transitions.
C2_Witness ==
    /\ op = "query" /\ qcall.orank = 2 /\ qout.exc = NoExc
    /\ Len(qcall.obs) = 2 /\ Len(qcall.action) = 2
    /\ qout.ret.next_obs[1] /= qout.ret.next_obs[2]

\* C3: a batch query whose action batch has another number of rows than its
\* observation batch never returns a result.
C3_RowMismatchRejected ==
    (op = "query" /\ qcall.orank = 2 /\ Len(qcall.action) /= Len(qcall.obs)) =>
        qout.exc /= NoExc

\* ---- the episodes of the last get_sequence_dataset
Min(S) == CHOOSE m \in S : \A n \in S : m <= n

\* The sequences of field k of the episodes numbered in S, joined in increasing
\* episode number.
RECURSIVE joined(_, _, _)
joined(episodes, S, k) ==
    IF S = {} THEN <<>>
    ELSE episodes[Min(S)][k] \o joined(episodes, S \ {Min(S)}, k)

Segmented == op = "get_sequence_dataset" /\ dout.exc = NoExc
SameLengths(data) == \A k \in DOMAIN data : Len(data[k].v) = Len(data["rewards"].v)
IsBoundary(ep, j) == Truthy(ep["terminals"][j]) \/ Truthy(ep["timeouts"][j])

\* C4: for a dataset whose fields all have length N, joining the episodes' sequences
\* of a field in increasing episode number gives the field's original sequence;
\* every value names its timestep, so every timestep is in exactly one episode, in
\* its original order.
C4_EpisodesPartition ==
    (Segmented /\ SameLengths(dout.data)) =>
        \A k \in DOMAIN dout.data :
            joined(dout.episodes, DOMAIN dout.episodes, k) = dout.data[k].v

\* A dataset of three timesteps was cut into at least two episodes.
C4_Witness ==
    /\ Segmented /\ SameLengths(dout.data)
    /\ Len(dout.data["rewards"].v) = 3
    /\ Cardinality(DOMAIN dout.episodes) >= 2

\* C5: in every episode a timestep with terminals or timeouts true is the last one,
\* the timesteps of an episode are consecutive, and the dataset with
\* terminals = [0,0,1,0,1] and no timeouts gives episode 0 of timesteps 0-2 and
\* episode 1 of timesteps 3-4.
C5_BoundaryIsLast ==
    Segmented =>
        /\ \A e \in DOMAIN dout.episodes :
              LET ep == dout.episodes[e] IN
              /\ \A j \in 1 .. Len(ep["rewards"]) :
                    IsBoundary(ep, j) => j = Len(ep["rewards"])
              /\ \A j \in 1 .. Len(ep["rewards"]) - 1 :
                    ep["rewards"][j + 1] = ep["rewards"][j] + 1
        /\ dout.data = ScenarioDataset =>
              /\ DOMAIN dout.episodes = {0, 1}
              /\ dout.episodes[0]["rewards"] = <<301, 302, 303>>
              /\ dout.episodes[1]["rewards"] = <<304, 305>>

\* An episode of two timesteps or more was closed by a timeout, not by a terminal.
C5_Witness ==
    /\ Segmented
    /\ \E e \in DOMAIN dout.episodes :
          LET ep == dout.episodes[e]
              n == Len(ep["rewards"])
          IN  n >= 2 /\ Truthy(ep["timeouts"][n]) /\ ~Truthy(ep["terminals"][n])

\* C6: once a fetch of a URL has returned and while its file is not removed, no
\* operation starts a transfer for that URL, and a fetch of it returns the path of
\* the URL with no transfer made.
C6_FetchIdempotent ==
    [][\A u \in cached :
          /\ transfers'[u] = transfers[u]
          /\ (op' = "fetch" /\ dcall'.url = u) =>
                /\ dout'.exc = NoExc
                /\ dout'.path = path_of(u)
                /\ dout'.events = <<"resolve", "makedirs", "fetched">>]_vars

\* A fetch of a URL that was fetched before returned its path from the cache.
C6_Witness ==
    /\ op = "fetch" /\ dout.exc = NoExc
    /\ dcall.url \in cached
    /\ dout.path \in DOMAIN dpre.files
    /\ transfers[dcall.url] = 1
    /\ dout.events = <<"resolve", "makedirs", "fetched">>

\* ---- the formulas applied last
Rows == 1 .. Len(rin.next_obs)

\* C7: for every task and every row i of a batch, the reward of row i alone is
\* entry i of the reward of the batch (or both raise).
C7_ScalarBatchRewardAgree ==
    rout.name = "reward" =>
        \A i \in Rows :
            /\ rout.single[i].exc = rout.batch.exc
            /\ rout.batch.exc = NoExc => rout.single[i].v = rout.batch.v[i][1]

\* C8: for every task, an observation with a component that is not finite is
\* terminal, alone and as a row of a batch.
C8_NonFiniteIsTerminal ==
    rout.name = "terminal" =>
        \A i \in Rows :
            ~all_finite(rin.next_obs[i]) =>
                /\ rout.batch.exc = NoExc /\ rout.batch.v[i][1] = TRUE
                /\ rout.single[i].exc = NoExc /\ rout.single[i].v = TRUE

\* A balancing task judged an upright pendulum at the centre whose velocity is
\* infinite.
C8_Witness ==
    /\ rout.name = "terminal"
    /\ rin.env.task = "BoundaryInvertedDoublePendulumBalancing"
    /\ \E i \in Rows :
          /\ ~all_finite(rin.next_obs[i])
          /\ upright(rin.next_obs[i]) /\ in_range(rin.env, rin.next_obs[i])
          /\ rout.batch.v[i][1] = TRUE

\* ---- the archive the last get_dataset loaded
Loaded == op = "get_dataset" /\ "load" \in Range(dout.events)
LoadedLeaves == files[path_of(dcall.url)].leaves

\* C9: get_dataset, having loaded an archive, returns it when the five mandatory
\* fields are present, and fails the assertion naming an absent field when one is
\* absent; whatever it returns holds the five fields.
C9_MandatoryFields ==
    /\ Loaded =>
          IF Mandatory \subseteq DOMAIN LoadedLeaves
          THEN dout.exc = NoExc /\ dout.data = LoadedLeaves
          ELSE /\ dout.exc = "AssertionError"
               /\ dout.missing \in Mandatory \ DOMAIN LoadedLeaves
    /\ (op = "get_dataset" /\ dout.exc = NoExc) => Mandatory \subseteq DOMAIN dout.data

\* An archive that lacks timeouts alone was refused for it.
C9_Witness ==
    /\ Loaded
    /\ Mandatory \ DOMAIN LoadedLeaves = {"timeouts"}
    /\ dout.exc = "AssertionError" /\ dout.missing = "timeouts"

\* C10: get_dataset with a name the environment does not offer fails the assertion
\* before any lookup, path resolution, directory creation or transfer, and leaves
\* the cache as it was.
C10_UnknownNameFailsFast ==
    (op = "get_dataset" /\ dcall.dataset_name \notin Range(offline_dataset_names(dcall.cls))) =>
        /\ dout.exc = "AssertionError" /\ dout.missing = ""
        /\ dout.events = <<>>
        /\ Cache = dpre

\* A name that is not offered was refused by an environment that offers others,
\* with a file in the cache.
C10_Witness ==
    /\ op = "get_dataset"
    /\ offline_dataset_names(dcall.cls) /= <<>>
    /\ dcall.dataset_name \notin Range(offline_dataset_names(dcall.cls))
    /\ dout.exc = "AssertionError"
    /\ DOMAIN files /= {}

\* C11: a fetch that returns returns the path of its URL and the file is in the
\* cache; a fetch that finds no file at the path before the call and none after
\* the transfer raises (IOError when the transfer itself returned).
C11_FetchReturnsExisting ==
    op = "fetch" =>
        /\ dout.exc = NoExc =>
              dout.path = path_of(dcall.url) /\ dout.path \in DOMAIN files
        /\ (path_of(dcall.url) \notin DOMAIN dpre.files
              /\ path_of(dcall.url) \notin DOMAIN files) =>
                 /\ dout.exc \in {"IOError", "URLError"}
                 /\ dout.path = <<>>

\* A transfer returned having written nothing, and the fetch raised IOError.
C11_Witness ==
    /\ op = "fetch" /\ dout.exc = "IOError"
    /\ path_of(dcall.url) \notin DOMAIN dpre.files
    /\ path_of(dcall.url) \notin DOMAIN files
    /\ transfers[dcall.url] = dpre.transfers[dcall.url] + 1

\* ---- the registry's triples
ends_with(s, t) == Len(s) >= Len(t) /\ SubSeq(s, Len(s) - Len(t) + 1, Len(s)) = t

\* C12: for every registered (env_name, param, dataset kind) the URL ends in
\* <kind>-<env_name>-v0.h5, and a fetch of it returns the path
\* <cache root>/<env_name>/<param>/<filename>, whose first directory under the
\* cache root is env_name.
C12_URLAndPath ==
    \A env_name \in Range(ENV_NAMES), param \in Range(params), kind \in Range(DATASETS) :
        LET url == URL_INFOS[env_name][param][kind]
            filename == kind \o <<"-">> \o env_name \o <<"-", "v0.h5">>
        IN  /\ ends_with(url, filename)
            /\ (op = "fetch" /\ dcall.url = url /\ dout.exc = NoExc) =>
                  dout.path = path_join(DATASET_PATH, <<env_name, param, filename>>)

\* ---- the boundaries of the dataset the last get_sequence_dataset loaded
Timesteps == Len(dout.data["rewards"].v)
Boundaries ==
    {i \in 1 .. Timesteps :
        Truthy(dout.data["terminals"].v[i]) \/ Truthy(dout.data["timeouts"].v[i])}
\* The number of episodes: one per boundary, and one more for a trailing run.
NumEpisodes ==
    Cardinality(Boundaries) + (IF Timesteps > 0 /\ Timesteps \notin Boundaries THEN 1 ELSE 0)

\* C13: get_sequence_dataset returns episodes keyed exactly 0 .. K-1, K being the
\* number of boundary timesteps plus one when the last timestep is no boundary
\* (none for an empty dataset); no episode is empty, and a trailing run that no
\* boundary closes is the last episode, ending with the last timestep.
C13_EpisodeKeys ==
    Segmented =>
        /\ DOMAIN dout.episodes = 0 .. NumEpisodes - 1
        /\ \A e \in DOMAIN dout.episodes : Len(dout.episodes[e]["rewards"]) >= 1
        /\ (Timesteps > 0 /\ Timesteps \notin Boundaries) =>
              LET ep == dout.episodes[NumEpisodes - 1]
                  n == Len(ep["rewards"])
              IN  /\ ep["rewards"][n] = dout.data["rewards"].v[Timesteps]
                  /\ \A j \in 1 .. n : ~IsBoundary(ep, j)

\* A dataset with a boundary before its last timestep and none at it gave two
\* episodes, the second the trailing run.
C13_Witness ==
    /\ Segmented
    /\ Timesteps >= 2 /\ Timesteps \notin Boundaries /\ Cardinality(Boundaries) = 1
    /\ DOMAIN dout.episodes = {0, 1}
    /\ ~IsBoundary(dout.episodes[1], Len(dout.episodes[1]["rewards"]))

\* ---- the back-end calls of the last query
QueryOrder == <<"freeze", "set_state", "step", "unfreeze">>
QuerySize == IF qcall.orank = 1 THEN 1 ELSE Len(qcall.obs)
\* The snapshots held when call i of the last query is made.
HeldBefore(i) ==
    Cardinality({j \in 1 .. i - 1 : qout.calls[j] = "freeze"})
        - Cardinality({j \in 1 .. i - 1 : qout.calls[j] = "unfreeze"})

\* C14: the back-end calls of a query issued on an idle environment are, row after
\* row, freeze, set-state-from-observation, step, unfreeze (all four for every row
\* when the query returns); freeze is called only while no snapshot is held,
\* unfreeze, set-state-from-observation and step only while one is.
C14_CallOrder ==
    (op = "query" /\ qpre.frozen_state = None) =>
        /\ Len(qout.calls) <= 4 * QuerySize
        /\ \A i \in 1 .. Len(qout.calls) :
              /\ qout.calls[i] = QueryOrder[((i - 1) % 4) + 1]
              /\ HeldBefore(i) = (IF qout.calls[i] = "freeze" THEN 0 ELSE 1)
        /\ qout.exc = NoExc => Len(qout.calls) = 4 * QuerySize

\* A batch of two rows returned after eight calls.
C14_Witness ==
    /\ op = "query" /\ qpre.frozen_state = None /\ qout.exc = NoExc
    /\ qcall.orank = 2 /\ Len(qcall.obs) = 2
    /\ qout.calls = QueryOrder \o QueryOrder

\* C15: after every query issued on an idle environment, whether it returned or
\* raised, no snapshot is held and the physical state is the one of before the
\* call: every freeze of the query was followed by its unfreeze.
C15_SnapshotNeverOutlives ==
    (op = "query" /\ qpre.frozen_state = None) =>
        /\ frozen_state = None
        /\ sim = qpre.sim
        /\ HeldBefore(Len(qout.calls) + 1) = 0

\* C16: a fetch that fails leaves no file at the path of its URL, so that the next
\* fetch of the URL transfers again; the file a fetch returns the path of is never
\* what a failed or interrupted transfer left behind.
C16_FailedFetchRetried ==
    op = "fetch" =>
        /\ dout.exc /= NoExc => path_of(dcall.url) \notin DOMAIN files
        /\ dout.exc = NoExc => files[dout.path] /= Partial

\* ---- the pairs a dataset name is built from
BuiltFrom(dataset_name) ==
    {pk \in Range(params) \X Range(DATASETS) : dataset_name = pk[1] \o <<"-">> \o pk[2]}

\* C17: every name an environment offers is built from one (param, kind) pair, the
\* split at its first "-" gives back that pair, and get_dataset on the name finds
\* the URL registered for the pair: no lookup fails, and the path it fetches and
\* the transfer it makes are those of that URL.
C17_NameSplitRecovers ==
    (op = "get_dataset" /\ dcall.dataset_name \in Range(offline_dataset_names(dcall.cls))) =>
        LET name == dcall.dataset_name
        IN  /\ \A n \in Range(offline_dataset_names(dcall.cls)) :
                  BuiltFrom(n) = {<<slice_to(n, find(n, "-")), slice_from(n, find(n, "-") + 1)>>}
            /\ \A pk \in BuiltFrom(name) :
                  LET url == URL_INFOS[class_env_name(dcall.cls)][pk[1]][pk[2]] IN
                  /\ dout.exc \notin {"KeyError", "AttributeError"}
                  /\ Head(dout.events) = "lookup"
                  /\ dout.exc = NoExc => dout.path = path_of(url)
                  /\ "transfer" \in Range(dout.events) =>
                        transfers = [dpre.transfers EXCEPT ![url] = @ + 1]

\* The name of a kind that holds a "-" was resolved and its dataset returned.
C17_Witness ==
    /\ op = "get_dataset" /\ dout.exc = NoExc
    /\ dcall.dataset_name = params[1] \o <<"-", "medium", "-", "replay">>
    /\ "transfer" \in Range(dout.events)

\* C19: a class whose name without its last three characters is no key of the
\* registry (HalfCheetahRunningEnv and the four inverted double pendulum classes
\* are such) offers no dataset name, and get_dataset of such an environment
\* fails the assertion on every name with nothing looked up, resolved, created
\* or transferred.
C19_UnregisteredOffersNothing ==
    /\ \A cls \in TaskClasses :
          class_env_name(cls) \notin DOMAIN URL_INFOS /\ offline_dataset_names(cls) = <<>>
    /\ (op = "get_dataset" /\ class_env_name(dcall.cls) \notin DOMAIN URL_INFOS) =>
          /\ offline_dataset_names(dcall.cls) = <<>>
          /\ dout.exc = "AssertionError"
          /\ dout.events = <<>>
          /\ files = dpre.files /\ dirs = dpre.dirs /\ transfers = dpre.transfers

\* A pendulum environment was asked for a name that a registered environment
\* offers, and refused it.
C19_Witness ==
    /\ op = "get_dataset"
    /\ dcall.cls = <<"ReboundInvertedDoublePendulumBalancing", "E", "n", "v">>
    /\ dcall.dataset_name = params[1] \o <<"-", "medium">>
    /\ dout.exc = "AssertionError"

\* ---- the callers past the transfer of their fetch
\* The callers fetching URL u whose look at the path showed no file and that have
\* passed the transfer statement.
Transferred(u) ==
    {c \in Callers : furl[c] = u /\ ~fseen[c] /\ fpc[c] \in {"recheck", "returned", "raised"}}

\* C18: the look at the path and the transfer are two steps: every caller whose
\* look showed no file makes a transfer to the path of its URL, whatever another
\* caller has written there since, so that two callers fetching the same URL that
\* both looked before either wrote both transfer.
C18_CheckThenTransfer ==
    \A u \in FetchURLs : transfers[u] >= Cardinality(Transferred(u))

\* Two callers fetched the same URL, both saw no file, both transferred to its
\* path, and the file is there.
C18_Witness ==
    /\ furl["a"] = furl["b"]
    /\ Transferred(furl["a"]) = Callers
    /\ transfers[furl["a"]] = 2
    /\ path_of(furl["a"]) \in DOMAIN files

====
